---------------------------- MODULE Spec2Model ----------------------------
(***************************************************************************)
(* Model of daily_tao_to_discord.py: one process that validates its        *)
(* environment configuration, fetches the staked balance and the alpha     *)
(* stake balances from the Taostats API, builds a report and posts it to a *)
(* Discord webhook.                                                        *)
(*                                                                         *)
(* Representation.                                                         *)
(*  - A Python str is a sequence of one-character strings, so that         *)
(*    slicing, startswith and float() parsing are computed.  An            *)
(*    environment variable is [set, val]: os.environ.get gives None        *)
(*    (set = FALSE) when the variable is not set.                          *)
(*  - A JSON value is a record [k, v] tagged by its kind k; a missing key  *)
(*    of an object is the kind "absent".                                   *)
(*  - A float is an exact rational [num, den].                             *)
(*  - A date is its proleptic Gregorian ordinal (date.toordinal()), and    *)
(*    formatting converts it to year, month and day.                       *)
(*  - An exception is a record with its type and the parts of its text.    *)
(*  - The report is a sequence of lines, each a record of the values its   *)
(*    f-string interpolates (the emoji of the literals are left out).      *)
(***************************************************************************)
EXTENDS Integers, Sequences, FiniteSets, TLC

VARIABLES
    pc,                   \* position of the process in main() / run()
    DISCORD_WEBHOOK_URL,  \* environment, read once at import
    TAOSTATS_API_KEY,
    MINER_ADDRESSES,
    LOOKBACK_DAYS,
    DEBUG_MODE,
    response,             \* what the most recent API GET answered
    webhook_response,     \* what the webhook POST answered
    today_utc,            \* datetime.now(timezone.utc).date() read by build_message
    earnings,             \* run(): result of fetch_earnings
    alpha_balances,       \* run(): result of fetch_alpha_rewards
    message,              \* run(): the message handed to post_to_discord
    fetch_exc,            \* run(): the exception caught by the first try
    alpha_exc,            \* the exception swallowed inside fetch_alpha_rewards
    post_result,          \* outcome of the post_to_discord call
    calls,                \* network calls issued, in order
    stdout,
    stderr,
    exit_status           \* process exit status, NotExited while running

vars == <<pc, DISCORD_WEBHOOK_URL, TAOSTATS_API_KEY, MINER_ADDRESSES,
          LOOKBACK_DAYS, DEBUG_MODE, response,
          webhook_response, today_utc, earnings, alpha_balances, message,
          fetch_exc, alpha_exc, post_result, calls, stdout, stderr,
          exit_status>>

----------------------------------------------------------------------------
(* Bounds of the model *)

\* longest "data" array of an alpha-stake response
MaxItems == 2

----------------------------------------------------------------------------
(* Python values *)

None == [k |-> "null", v |-> 0]
Absent == [k |-> "absent", v |-> 0]
JInt(n) == [k |-> "int", v |-> n]
JStr(s) == [k |-> "str", v |-> s]
JList(items) == [k |-> "list", v |-> items]
JObject(fields) == [k |-> "object", v |-> fields]

\* dict.get(key, default): the default stands for a missing key only
Get(obj, key, default) ==
    IF obj.v[key].k = "absent" THEN default ELSE obj.v[key]

\* truth value of a JSON value (None, "", 0, [] and {} are falsy)
Truthy(x) ==
    CASE x.k = "null" -> FALSE
      [] x.k = "absent" -> FALSE
      [] x.k = "int" -> x.v # 0
      [] x.k = "str" -> Len(x.v) > 0
      [] x.k = "list" -> Len(x.v) > 0
      [] OTHER -> TRUE

Unset == [set |-> FALSE, val |-> <<>>]
EnvStr(s) == [set |-> TRUE, val |-> s]

\* truth value of an os.environ.get result: None and "" are falsy
EnvTruthy(e) == e.set /\ Len(e.val) > 0

StartsWith(s, prefix) ==
    /\ Len(s) >= Len(prefix)
    /\ SubSeq(s, 1, Len(prefix)) = prefix

Min(a, b) == IF a <= b THEN a ELSE b

\* s[:n]
Slice(s, n) == SubSeq(s, 1, Min(n, Len(s)))

Exc(type, msg, detail) == [type |-> type, msg |-> msg, detail |-> detail]
NoExc == Exc("", "", <<>>)

\* outcome of a call: its value or the exception it raised, and the lines it
\* printed to the error stream
Returned(value, log) ==
    [raised |-> FALSE, value |-> value, exc |-> NoExc, log |-> log]
Raised(exc, log) ==
    [raised |-> TRUE, value |-> <<>>, exc |-> exc, log |-> log]

\* floats, as exact rationals
Float(num, den) == [num |-> num, den |-> den]
Zero == Float(0, 1)
FDiv(a, d) == IF a.num = 0 THEN Zero ELSE Float(a.num, a.den * d)
FAdd(a, b) ==
    CASE a.num = 0 -> b
      [] b.num = 0 -> a
      [] OTHER -> Float(a.num * b.den + b.num * a.den, a.den * b.den)

Digits == <<"0","1","2","3","4","5","6","7","8","9">>
IsDigit(c) == \E i \in 1..10 : Digits[i] = c
DigitValue(c) == (CHOOSE i \in 1..10 : Digits[i] = c) - 1

RECURSIVE DecimalValue(_)
DecimalValue(s) ==
    IF Len(s) = 0 THEN 0
    ELSE 10 * DecimalValue(SubSeq(s, 1, Len(s) - 1)) + DigitValue(s[Len(s)])

\* float(x): numbers convert, a str is parsed (here: decimal digits only, any
\* other text is a ValueError), None and containers are a TypeError
ToFloat(x) ==
    CASE x.k = "int" -> Returned(Float(x.v, 1), <<>>)
      [] x.k = "str" ->
            IF Len(x.v) > 0 /\ \A i \in 1..Len(x.v) : IsDigit(x.v[i])
            THEN Returned(Float(DecimalValue(x.v), 1), <<>>)
            ELSE Raised(Exc("ValueError", "could not convert string to float", x.v), <<>>)
      [] OTHER ->
            Raised(Exc("TypeError", "float() argument must be a string or a real number", <<>>), <<>>)

----------------------------------------------------------------------------
(* Module constants *)

RAO_TO_TAO == 1000000000
TAO_NETWORK == "finney"

\* ALPHA_TOKEN_SYMBOLS.get(netuid, default)
ALPHA_TOKEN_SYMBOLS(netuid, default) ==
    CASE netuid = 41 -> "nun"
      [] netuid = 64 -> "sheen"
      [] OTHER -> default

WebhookPrefix ==
    <<"h","t","t","p","s",":","/","/","d","i","s","c","o","r","d",".","c","o","m",
      "/","a","p","i","/","w","e","b","h","o","o","k","s","/">>


----------------------------------------------------------------------------
(* DailyTaoReporter._validate_config *)

\* mutant: the webhook URL prefix is not checked
_validate_config_no_prefix(url, key, addresses) ==
    IF ~EnvTruthy(url)
    THEN Raised(Exc("RuntimeError", "DISCORD_WEBHOOK_URL environment variable is required", <<>>), <<>>)
    ELSE IF ~EnvTruthy(key)
    THEN Raised(Exc("RuntimeError", "TAOSTATS_API_KEY environment variable is required", <<>>), <<>>)
    ELSE IF ~EnvTruthy(addresses)
    THEN Raised(Exc("RuntimeError", "MINER_ADDRESSES environment variable is required", <<>>), <<>>)
    ELSE Returned(<<>>, <<>>)

_validate_config(url, key, addresses) ==
    IF ~EnvTruthy(url)
    THEN Raised(Exc("RuntimeError", "DISCORD_WEBHOOK_URL environment variable is required", <<>>), <<>>)
    ELSE IF ~StartsWith(url.val, WebhookPrefix)
    THEN Raised(Exc("RuntimeError", "Invalid Discord webhook URL format", Slice(url.val, 60)), <<>>)
    ELSE IF ~EnvTruthy(key)
    THEN Raised(Exc("RuntimeError", "TAOSTATS_API_KEY environment variable is required", <<>>), <<>>)
    ELSE IF ~EnvTruthy(addresses)
    THEN Raised(Exc("RuntimeError", "MINER_ADDRESSES environment variable is required", <<>>), <<>>)
    ELSE Returned(<<>>, <<>>)

----------------------------------------------------------------------------
(* DailyTaoReporter._make_api_request *)

\* An HTTP exchange either fails in transport or yields a status and a body;
\* a body is a parsed JSON value, or "malformed", where v names the exception
\* response.json() raises for it (requests.exceptions.JSONDecodeError, a
\* RequestException, or json.JSONDecodeError, depending on the library).
TransportError == [kind |-> "transport_error", status |-> 0, body |-> None]
Http(status, body) == [kind |-> "http", status |-> status, body |-> body]
NoResponse == [kind |-> "none", status |-> 0, body |-> None]
Malformed(cls) == [k |-> "malformed", v |-> cls]

\* response.raise_for_status() raises for 4xx and 5xx
raise_for_status(resp) == 400 <= resp.status /\ resp.status < 600

_make_api_request(resp) ==
    IF resp.kind = "transport_error"
    THEN Raised(Exc("RuntimeError", "API request failed", <<"ConnectionError">>), <<>>)
    ELSE IF raise_for_status(resp)
    THEN Raised(Exc("RuntimeError", "API request failed", <<"HTTPError", ToString(resp.status)>>), <<>>)
    ELSE IF resp.body.k = "malformed"
    THEN IF resp.body.v = "requests.exceptions.JSONDecodeError"
         THEN Raised(Exc("RuntimeError", "API request failed", <<"JSONDecodeError">>), <<>>)
         ELSE Raised(Exc("RuntimeError", "Invalid JSON response from API", <<"JSONDecodeError">>), <<>>)
    ELSE Returned(resp.body, <<>>)

----------------------------------------------------------------------------
(* DailyTaoReporter.fetch_earnings *)

MinerEarning(coldkey, amount_tao) == [coldkey |-> coldkey, amount_tao |-> amount_tao]

\* str(exc), as the parts of its text
ExcText(exc) == <<exc.type, exc.msg>> \o exc.detail

\* if DEBUG_MODE: print(..., file=sys.stderr)
DebugLine(debug, text, detail) ==
    IF debug THEN <<[t |-> text, detail |-> detail]>> ELSE <<>>

\* the body of the try block
fetch_earnings_try(resp, addresses, debug) ==
    LET r == _make_api_request(resp) IN
    IF r.raised THEN r
    ELSE IF r.value.k # "object"
    THEN Raised(Exc("AttributeError", "object has no attribute 'get'", <<>>), <<>>)
    ELSE
    LET data == Get(r.value, "data", JList(<<>>)) IN
    IF ~Truthy(data)
    THEN Returned(<<MinerEarning(addresses, Zero)>>,
                  DebugLine(debug, "No earnings data found", Slice(addresses, 20)))
    ELSE IF data.k # "list"
    THEN Raised(Exc("KeyError", "0", <<>>), <<>>)
    ELSE
    LET first_record == data.v[1] IN
    IF first_record.k # "object"
    THEN Raised(Exc("AttributeError", "object has no attribute 'get'", <<>>), <<>>)
    ELSE
    LET balance_staked == Get(first_record, "balance_staked", JStr(<<"0">>)) IN
    IF ~Truthy(balance_staked)
    THEN Returned(<<MinerEarning(addresses, Zero)>>, <<>>)
    ELSE
    LET f == ToFloat(balance_staked) IN
    IF f.raised THEN f
    ELSE Returned(<<MinerEarning(addresses, FDiv(f.value, RAO_TO_TAO))>>, <<>>)

\* mutant: the except clause returns an empty list instead of re-raising
fetch_earnings_swallow(resp, addresses, debug) ==
    LET r == fetch_earnings_try(resp, addresses, debug) IN
    IF r.raised
    THEN Returned(<<>>, DebugLine(debug, "Debug: Error fetching earnings", ExcText(r.exc)))
    ELSE r

\* except Exception: print in debug mode, then re-raise
fetch_earnings(resp, addresses, debug) ==
    LET r == fetch_earnings_try(resp, addresses, debug) IN
    IF r.raised
    THEN Raised(r.exc, DebugLine(debug, "Debug: Error fetching earnings", ExcText(r.exc)))
    ELSE r

----------------------------------------------------------------------------
(* DailyTaoReporter.fetch_alpha_rewards *)

AlphaStakeBalance(netuid, balance_rao, balance_as_tao, hotkey_name) ==
    [netuid |-> netuid, balance_rao |-> balance_rao,
     balance_as_tao |-> balance_as_tao, hotkey_name |-> hotkey_name]

\* mutant: "if netuid:", which also drops subnet 0
has_netuid_truthy(netuid) == Truthy(netuid)

\* if netuid is not None
has_netuid(netuid) == netuid.k # "null"

\* for item in data: ... ; items still to visit, balances appended so far
RECURSIVE alpha_loop(_, _)
alpha_loop(items, alpha_balances_) ==
    IF Len(items) = 0 THEN Returned(alpha_balances_, <<>>)
    ELSE
    LET item == Head(items) IN
    IF item.k # "object"
    THEN Raised(Exc("AttributeError", "object has no attribute 'get'", <<>>), <<>>)
    ELSE
    LET netuid == Get(item, "netuid", None)
        balance == Get(item, "balance", JStr(<<"0">>))
        balance_as_tao == Get(item, "balance_as_tao", JStr(<<"0">>))
        hotkey_name == Get(item, "hotkey_name", None)
    IN  alpha_loop(Tail(items),
                   IF has_netuid(netuid)
                   THEN Append(alpha_balances_,
                               AlphaStakeBalance(netuid, balance, balance_as_tao, hotkey_name))
                   ELSE alpha_balances_)

\* the body of the try block
fetch_alpha_rewards_try(resp, addresses, debug) ==
    LET r == _make_api_request(resp) IN
    IF r.raised THEN r
    ELSE IF r.value.k # "object"
    THEN Raised(Exc("AttributeError", "object has no attribute 'get'", <<>>), <<>>)
    ELSE
    LET data == Get(r.value, "data", JList(<<>>)) IN
    IF ~Truthy(data)
    THEN Returned(<<>>, DebugLine(debug, "No alpha stake data found", Slice(addresses, 20)))
    ELSE IF data.k # "list"
    THEN Raised(Exc("AttributeError", "object has no attribute 'get'", <<>>), <<>>)
    ELSE
    LET l == alpha_loop(data.v, <<>>) IN
    IF l.raised THEN l
    ELSE Returned(l.value,
                  DebugLine(debug, "Debug: Found alpha stake records", <<ToString(Len(l.value))>>))

\* mutant: the except clause re-raises, as fetch_earnings does
fetch_alpha_rewards_reraise(resp, addresses, debug) ==
    LET r == fetch_alpha_rewards_try(resp, addresses, debug) IN
    IF r.raised
    THEN Raised(r.exc, DebugLine(debug, "Debug: Error fetching alpha rewards", ExcText(r.exc)))
    ELSE r

\* except Exception: print in debug mode, return []
fetch_alpha_rewards(resp, addresses, debug) ==
    LET r == fetch_alpha_rewards_try(resp, addresses, debug) IN
    IF r.raised
    THEN Returned(<<>>, DebugLine(debug, "Debug: Error fetching alpha rewards", ExcText(r.exc)))
    ELSE r

----------------------------------------------------------------------------
(* Dates: datetime.date arithmetic and formatting *)

NoDate == [some |-> FALSE, ord |-> 0]
SomeDate(ordinal) == [some |-> TRUE, ord |-> ordinal]

\* date - timedelta(days): OverflowError below date.min (ordinal 1)
date_sub(ordinal, days) ==
    IF ordinal - days < 1
    THEN Raised(Exc("OverflowError", "date value out of range", <<>>), <<>>)
    ELSE Returned(ordinal - days, <<>>)

\* year, month and day of an ordinal (proleptic Gregorian calendar)
YMD(ordinal) ==
    LET z == ordinal + 305    \* days since 0000-03-01
        era == z \div 146097
        doe == z % 146097
        yoe == (doe - doe \div 1460 + doe \div 36524 - doe \div 146096) \div 365
        doy == doe - (365 * yoe + yoe \div 4 - yoe \div 100)
        mp == (5 * doy + 2) \div 153
        d == doy - (153 * mp + 2) \div 5 + 1
        m == IF mp < 10 THEN mp + 3 ELSE mp - 9
        y == yoe + era * 400 + (IF m <= 2 THEN 1 ELSE 0)
    IN  <<y, m, d>>

RECURSIVE ZeroPad(_, _)
ZeroPad(text, width) ==
    IF Len(text) >= width THEN text ELSE ZeroPad("0" \o text, width)

\* strftime("%Y-%m-%d") and isoformat()
FormatDate(ordinal) ==
    LET ymd == YMD(ordinal) IN
    ZeroPad(ToString(ymd[1]), 4) \o "-" \o ZeroPad(ToString(ymd[2]), 2)
        \o "-" \o ZeroPad(ToString(ymd[3]), 2)

(* DailyTaoReporter._get_date_range *)
_get_date_range(lookback, today) ==
    IF lookback <= 0
    THEN Returned([date_start_str |-> "None", date_end_str |-> "None",
                   start_date |-> NoDate, end_date |-> NoDate], <<>>)
    ELSE
    LET end_date == today
        start_date == date_sub(today, lookback)
    IN  IF start_date.raised THEN start_date
        ELSE Returned([date_start_str |-> FormatDate(start_date.value),
                       date_end_str |-> FormatDate(end_date),
                       start_date |-> SomeDate(start_date.value),
                       end_date |-> SomeDate(end_date)], <<>>)

----------------------------------------------------------------------------
(* DailyTaoReporter.build_message *)

RECURSIVE Pow10(_)
Pow10(n) == IF n = 0 THEN 1 ELSE 10 * Pow10(n - 1)

\* f"{x:.<digits>f}" of a float with denominator 1 or RAO_TO_TAO: the integer
\* part, and the fraction rounded to that many decimals
FormatFixed(x, digits) ==
    LET whole == x.num \div x.den
        unit == x.den \div Pow10(digits)
        frac == IF unit = 0 THEN 0 ELSE ((x.num % x.den) + unit \div 2) \div unit
        carry == frac \div Pow10(digits)
    IN  ToString(whole + carry) \o "." \o ZeroPad(ToString(frac % Pow10(digits)), digits)

\* mutant: "if LOOKBACK_DAYS < 0" selects the all-time header
build_header_strict(lookback, range) ==
    IF lookback < 0
    THEN [t |-> "header", mode |-> "All Time", dates |-> <<>>]
    ELSE IF lookback = 1
    THEN [t |-> "header", mode |-> "Daily",
          dates |-> <<IF range.end_date.some THEN FormatDate(range.end_date.ord) ELSE "N/A">>]
    ELSE [t |-> "header", mode |-> "Range",
          dates |-> <<range.date_start_str, range.date_end_str>>]

\* header by time range; dates lists the dates the header text contains
build_header(lookback, range) ==
    IF lookback <= 0
    THEN [t |-> "header", mode |-> "All Time", dates |-> <<>>]
    ELSE IF lookback = 1
    THEN [t |-> "header", mode |-> "Daily",
          dates |-> <<IF range.end_date.some THEN FormatDate(range.end_date.ord) ELSE "N/A">>]
    ELSE [t |-> "header", mode |-> "Range",
          dates |-> <<range.date_start_str, range.date_end_str>>]

RECURSIVE total_earnings(_)
total_earnings(entries) ==
    IF Len(entries) = 0 THEN Zero
    ELSE FAdd(total_earnings(SubSeq(entries, 1, Len(entries) - 1)),
              entries[Len(entries)].amount_tao)

earnings_section(entries) ==
    IF Len(entries) > 0
    THEN <<[t |-> "TAO Earnings:"]>>
         \o [i \in 1..Len(entries) |->
                [t |-> "earning", coldkey |-> Slice(entries[i].coldkey, 20),
                 amount |-> FormatFixed(entries[i].amount_tao, 6)]]
         \o <<[t |-> "Total Earnings:", amount |-> FormatFixed(total_earnings(entries), 6),
               count |-> Len(entries)],
              [t |-> ""]>>
    ELSE <<[t |-> "TAO Earnings: No earnings data available."], [t |-> ""]>>

\* dict.get needs a hashable key
Hashable(x) == x.k \notin {"list", "object"}

\* one line of the alpha section, or the exception its computation raises
alpha_line(balance) ==
    LET f == ToFloat(balance.balance_rao) IN
    IF f.raised THEN f
    ELSE IF ~Hashable(balance.netuid)
    THEN Raised(Exc("TypeError", "unhashable type", <<>>), <<>>)
    ELSE Returned([t |-> "alpha", netuid |-> balance.netuid,
                   hotkey_info |-> IF Truthy(balance.hotkey_name)
                                   THEN balance.hotkey_name.v ELSE <<>>,
                   amount |-> FormatFixed(FDiv(f.value, RAO_TO_TAO), 4),
                   symbol |-> IF balance.netuid.k = "int"
                              THEN ALPHA_TOKEN_SYMBOLS(balance.netuid.v, "alpha")
                              ELSE "alpha"], <<>>)

RECURSIVE alpha_lines(_, _)
alpha_lines(balances, lines) ==
    IF Len(balances) = 0 THEN Returned(lines, <<>>)
    ELSE LET l == alpha_line(Head(balances)) IN
         IF l.raised THEN l
         ELSE alpha_lines(Tail(balances), Append(lines, l.value))

NoAlphaLine == [t |-> "Alpha Staked Balances: No alpha stake data available."]

alpha_section(balances) ==
    IF Len(balances) > 0
    THEN alpha_lines(balances, <<[t |-> "Alpha Staked Balances:"]>>)
    ELSE Returned(<<NoAlphaLine>>, <<>>)

build_message(earnings_, alpha_balances_, lookback, today) ==
    LET range == _get_date_range(lookback, today) IN
    IF range.raised THEN range
    ELSE
    LET header == build_header(lookback, range.value)
        lines == <<header, [t |-> "Network:", network |-> TAO_NETWORK], [t |-> ""]>>
                 \o earnings_section(earnings_)
        alpha == alpha_section(alpha_balances_)
    IN  IF alpha.raised THEN alpha
        ELSE Returned(lines \o alpha.value, <<>>)

----------------------------------------------------------------------------
(* DailyTaoReporter.post_to_discord *)

\* What urlopen meets: a failure before the request is sent (DNS, connection
\* refused, connect or send timeout: URLError), a timeout while waiting for the
\* response (raised as TimeoutError by getresponse), or a status with a body,
\* the body being bytes that are valid UTF-8 (text) or not.
UrlError == [kind |-> "url_error", status |-> 0, body |-> [utf8 |-> TRUE, text |-> ""]]
ReadTimeout == [kind |-> "read_timeout", status |-> 0, body |-> [utf8 |-> TRUE, text |-> ""]]
WebhookHttp(status, body) == [kind |-> "http", status |-> status, body |-> body]

\* bytes.decode("utf-8")
decode(body) ==
    IF body.utf8 THEN Returned(body.text, <<>>)
    ELSE Raised(Exc("UnicodeDecodeError", "'utf-8' codec can't decode byte", <<>>), <<>>)

\* urlopen returns the response for a 2xx status and raises HTTPError otherwise
is_http_error(status) == ~(200 <= status /\ status < 300)

\* if status not in (200, 204)
is_success(status) == status \in {200, 204}

\* except urllib.error.HTTPError
http_error(resp) ==
    LET d == decode(resp.body)
        error_body == IF d.raised THEN "" ELSE d.value
        error_msg == <<"HTTP", ToString(resp.status)>>
                     \o (IF error_body # "" THEN <<error_body>> ELSE <<>>)
                     \o (IF resp.status = 403 THEN <<"Possible causes:">>
                         ELSE IF resp.status = 404 THEN <<"Webhook not found.">>
                         ELSE <<>>)
    IN  Raised(Exc("RuntimeError", "Failed to send Discord message", error_msg), <<>>)

\* value: the lines printed to standard output; posted: whether the POST was issued
post_to_discord(content, url, resp) ==
    IF ~EnvTruthy(url) \/ ~StartsWith(url.val, WebhookPrefix)
    THEN [posted |-> FALSE] @@
         Raised(Exc("RuntimeError", "Invalid Discord webhook URL format", Slice(url.val, 50)), <<>>)
    ELSE
    [posted |-> TRUE] @@
    (CASE resp.kind = "url_error" ->
            Raised(Exc("RuntimeError", "Network error connecting to Discord", <<>>), <<>>)
       [] resp.kind = "read_timeout" ->
            Raised(Exc("TimeoutError", "timed out", <<>>), <<>>)
       [] OTHER ->
            IF is_http_error(resp.status) THEN http_error(resp)
            ELSE
            LET response_body == decode(resp.body) IN
            IF response_body.raised THEN response_body
            ELSE IF ~is_success(resp.status)
            THEN Raised(Exc("RuntimeError", "Discord returned status",
                            <<ToString(resp.status), response_body.value>>), <<>>)
            ELSE Returned(<<[t |-> "Message sent to Discord", status |-> resp.status]>>, <<>>))

----------------------------------------------------------------------------
(* The environment: configurations and network answers *)

Coldkey ==
    <<"5","G","3","x","H","m","D","R","z","9","y","W","D","S","9","t","n","z","n","W","T","V","n","y",
      "h","C","v","L","Z","i","L","U","U","b","q","F","b","R","N","E","r","e","G","S","C","Y","g","D">>

WebhookUrls ==
    { Unset,
      EnvStr(<<>>),
      EnvStr(SubSeq(WebhookPrefix, 1, 19)),                         \* https://discord.com
      EnvStr(SubSeq(WebhookPrefix, 1, 4) \o SubSeq(WebhookPrefix, 6, 33)
             \o <<"1","/","t">>),                                   \* http://...
      EnvStr(WebhookPrefix),
      EnvStr(WebhookPrefix \o <<"1","/","t">>) }

ApiKeys == { Unset, EnvStr(<<>>), EnvStr(<<"k","e","y">>) }

Addresses == { Unset, EnvStr(<<>>), EnvStr(Coldkey) }

\* int(os.environ.get("TAO_LOOKBACK_DAYS", "10")); the last two reach back to
\* the first days of the calendar
Lookbacks == { -1, 0, 1, 2, 10, 738944, 739921 }

\* 2024-02-29 and 2026-11-01
Todays == { 738945, 739921 }

Envelope(data) == JObject([data |-> data])
AccountRecord(balance_staked) == JObject([balance_staked |-> balance_staked])

AcctFailures ==
    { TransportError,
      Http(500, None),
      Http(404, Envelope(JList(<<>>))),
      Http(200, Malformed("requests.exceptions.JSONDecodeError")),
      Http(200, Malformed("json.JSONDecodeError")) }

AcctBodies ==
    { JList(<<>>),
      Envelope(Absent),
      Envelope(None),
      Envelope(JList(<<>>)),
      Envelope(Envelope(None)),
      Envelope(JList(<<JInt(7)>>)),
      Envelope(JList(<<AccountRecord(Absent)>>)),
      Envelope(JList(<<AccountRecord(None)>>)),
      Envelope(JList(<<AccountRecord(JStr(<<>>))>>)),
      Envelope(JList(<<AccountRecord(JStr(<<"1","5","0","0","0","0","0","0","0","0">>)),
                       AccountRecord(JStr(<<"7">>))>>)),
      Envelope(JList(<<AccountRecord(JInt(1234567890))>>)),
      Envelope(JList(<<AccountRecord(JStr(<<"a","b","c">>))>>)) }

\* a 3xx answer that requests does not follow (no Location) is handed back too
AcctResponses == AcctFailures \cup { Http(st, b) : st \in {200, 300}, b \in AcctBodies }

AlphaItem(netuid, balance, hotkey_name) ==
    JObject([netuid |-> netuid, balance |-> balance,
             balance_as_tao |-> Absent, hotkey_name |-> hotkey_name])

Rao2 == JStr(<<"2","0","0","0","0","0","0","0","0","0">>)

AlphaItems ==
    { AlphaItem(JInt(41), Rao2, JStr(<<"h","k">>)),
      AlphaItem(JInt(0), Absent, Absent),
      AlphaItem(Absent, Rao2, Absent),
      AlphaItem(None, Rao2, None),
      AlphaItem(JInt(99), JStr(<<"a","b","c">>), Absent),
      JInt(7) }

RECURSIVE SeqsUpTo(_, _)
SeqsUpTo(S, n) ==
    IF n = 0 THEN { <<>> }
    ELSE LET shorter == SeqsUpTo(S, n - 1) IN
         shorter \cup { Append(q, x) : q \in shorter, x \in S }

AlphaFailures ==
    { TransportError,
      Http(500, None),
      Http(200, Malformed("json.JSONDecodeError")),
      Http(200, JList(<<>>)),
      Http(200, Envelope(Absent)),
      Http(200, Envelope(Envelope(None))) }

AlphaResponses ==
    AlphaFailures
    \cup { Http(200, Envelope(JList(q))) : q \in SeqsUpTo(AlphaItems, MaxItems) }
    \cup { Http(300, Envelope(JList(<<AlphaItem(JInt(41), Rao2, Absent)>>))) }

Text(t) == [utf8 |-> TRUE, text |-> t]
BadBytes == [utf8 |-> FALSE, text |-> ""]

WebhookResponses ==
    { UrlError,
      ReadTimeout,
      WebhookHttp(204, Text("")),
      WebhookHttp(200, Text("{}")),
      WebhookHttp(200, BadBytes),
      WebhookHttp(201, Text("{}")),
      WebhookHttp(403, Text("{\"message\": \"Unknown Webhook\"}")),
      WebhookHttp(404, Text("")),
      WebhookHttp(500, Text("oops")),
      WebhookHttp(500, BadBytes) }

----------------------------------------------------------------------------
(* The process: main() and DailyTaoReporter.run() *)

NotExited == 0 - 1

NoPost == [state |-> "none", exc |-> NoExc]

Init ==
    /\ pc = "main"
    /\ DISCORD_WEBHOOK_URL \in WebhookUrls
    /\ TAOSTATS_API_KEY \in ApiKeys
    /\ MINER_ADDRESSES \in Addresses
    /\ LOOKBACK_DAYS \in Lookbacks
    /\ DEBUG_MODE \in BOOLEAN
    /\ response = NoResponse
    /\ webhook_response = NoResponse
    /\ today_utc = 0
    /\ earnings = <<>>
    /\ alpha_balances = <<>>
    /\ message = <<>>
    /\ fetch_exc = NoExc
    /\ alpha_exc = NoExc
    /\ post_result = NoPost
    /\ calls = <<>>
    /\ stdout = <<>>
    /\ stderr = <<>>
    /\ exit_status = NotExited

\* the message run() substitutes in its first except clause
degraded_message(exc) ==
    << [t |-> "Daily TAO Earnings - data unavailable"],
       [t |-> "Reason:", exc |-> ExcText(exc)] >>

\* main(): DailyTaoReporter() validates the configuration; the RuntimeError it
\* raises is not caught, so the interpreter prints it and exits with status 1
Construct ==
    /\ pc = "main"
    /\ LET r == _validate_config(DISCORD_WEBHOOK_URL, TAOSTATS_API_KEY, MINER_ADDRESSES) IN
       IF r.raised
       THEN /\ stderr' = Append(stderr, [t |-> "Traceback", detail |-> ExcText(r.exc)])
            /\ exit_status' = 1
            /\ pc' = "exit"
       ELSE /\ pc' = "fetch_earnings"
            /\ UNCHANGED <<stderr, exit_status>>
    /\ UNCHANGED <<DISCORD_WEBHOOK_URL, TAOSTATS_API_KEY, MINER_ADDRESSES,
                   LOOKBACK_DAYS, DEBUG_MODE, response,
                   webhook_response, today_utc, earnings, alpha_balances,
                   message, fetch_exc, alpha_exc, post_result, calls, stdout>>

\* mutant: a failed accounting GET is tried again (twice at most)
FetchEarnings_retry ==
    /\ pc = "fetch_earnings"
    /\ \E resp \in AcctResponses :
         LET r == fetch_earnings(resp, MINER_ADDRESSES.val, DEBUG_MODE) IN
         /\ response' = resp
         /\ calls' = Append(calls, "accounting GET")
         /\ stderr' = stderr \o r.log
         /\ IF r.raised /\ Len(calls) < 1
            THEN UNCHANGED <<pc, fetch_exc, message, earnings>>
            ELSE IF r.raised
            THEN /\ fetch_exc' = r.exc
                 /\ message' = degraded_message(r.exc)
                 /\ pc' = "post_to_discord"
                 /\ UNCHANGED earnings
            ELSE /\ earnings' = r.value
                 /\ pc' = "fetch_alpha_rewards"
                 /\ UNCHANGED <<fetch_exc, message>>
    /\ UNCHANGED <<DISCORD_WEBHOOK_URL, TAOSTATS_API_KEY, MINER_ADDRESSES,
                   LOOKBACK_DAYS, DEBUG_MODE, webhook_response, today_utc,
                   alpha_balances, alpha_exc, post_result, stdout, exit_status>>

\* run(): earnings = self.fetch_earnings(), and the except clause when it raises
FetchEarnings ==
    /\ pc = "fetch_earnings"
    /\ \E resp \in AcctResponses :
         LET r == fetch_earnings(resp, MINER_ADDRESSES.val, DEBUG_MODE) IN
         /\ response' = resp
         /\ calls' = Append(calls, "accounting GET")
         /\ stderr' = stderr \o r.log
         /\ IF r.raised
            THEN /\ fetch_exc' = r.exc
                 /\ message' = degraded_message(r.exc)
                 /\ pc' = "post_to_discord"
                 /\ UNCHANGED earnings
            ELSE /\ earnings' = r.value
                 /\ pc' = "fetch_alpha_rewards"
                 /\ UNCHANGED <<fetch_exc, message>>
    /\ UNCHANGED <<DISCORD_WEBHOOK_URL, TAOSTATS_API_KEY, MINER_ADDRESSES,
                   LOOKBACK_DAYS, DEBUG_MODE, webhook_response, today_utc,
                   alpha_balances, alpha_exc, post_result, stdout, exit_status>>

\* run(): alpha_balances = self.fetch_alpha_rewards()
FetchAlphaRewards ==
    /\ pc = "fetch_alpha_rewards"
    /\ \E resp \in AlphaResponses :
         LET r == fetch_alpha_rewards(resp, MINER_ADDRESSES.val, DEBUG_MODE)
             t == fetch_alpha_rewards_try(resp, MINER_ADDRESSES.val, DEBUG_MODE)
         IN
         /\ response' = resp
         /\ calls' = Append(calls, "alpha-stake GET")
         /\ stderr' = stderr \o r.log
         /\ alpha_exc' = t.exc
         /\ IF r.raised
            THEN /\ fetch_exc' = r.exc
                 /\ message' = degraded_message(r.exc)
                 /\ pc' = "post_to_discord"
                 /\ UNCHANGED alpha_balances
            ELSE /\ alpha_balances' = r.value
                 /\ pc' = "build_message"
                 /\ UNCHANGED <<fetch_exc, message>>
    /\ UNCHANGED <<DISCORD_WEBHOOK_URL, TAOSTATS_API_KEY, MINER_ADDRESSES,
                   LOOKBACK_DAYS, DEBUG_MODE, webhook_response, today_utc,
                   earnings, post_result, stdout, exit_status>>

\* mutant: no except clause around build_message, its exception ends the run
BuildMessage_uncaught ==
    /\ pc = "build_message"
    /\ \E today \in Todays :
         LET r == build_message(earnings, alpha_balances, LOOKBACK_DAYS, today) IN
         /\ today_utc' = today
         /\ IF r.raised
            THEN /\ stderr' = Append(stderr, [t |-> "Traceback", detail |-> ExcText(r.exc)])
                 /\ exit_status' = 1
                 /\ pc' = "exit"
                 /\ UNCHANGED <<message, fetch_exc>>
            ELSE /\ message' = r.value
                 /\ pc' = "post_to_discord"
                 /\ UNCHANGED <<fetch_exc, stderr, exit_status>>
    /\ UNCHANGED <<DISCORD_WEBHOOK_URL, TAOSTATS_API_KEY, MINER_ADDRESSES,
                   LOOKBACK_DAYS, DEBUG_MODE, response, webhook_response,
                   earnings, alpha_balances, alpha_exc, post_result, calls, stdout>>

\* run(): message = self.build_message(earnings, alpha_balances), and the except
\* clause when it raises
BuildMessage ==
    /\ pc = "build_message"
    /\ \E today \in Todays :
         LET r == build_message(earnings, alpha_balances, LOOKBACK_DAYS, today) IN
         /\ today_utc' = today
         /\ IF r.raised
            THEN /\ fetch_exc' = r.exc
                 /\ message' = degraded_message(r.exc)
            ELSE /\ message' = r.value
                 /\ UNCHANGED fetch_exc
    /\ pc' = "post_to_discord"
    /\ UNCHANGED <<DISCORD_WEBHOOK_URL, TAOSTATS_API_KEY, MINER_ADDRESSES,
                   LOOKBACK_DAYS, DEBUG_MODE, response,
                   webhook_response, earnings, alpha_balances, alpha_exc,
                   post_result, calls, stdout, stderr, exit_status>>

\* mutant: the except clause falls through to "return 0"
run_return_always0(post) == IF post.raised THEN 0 ELSE 0

\* mutant: "return 1" is reached on every path
run_return_always1(post) == IF post.raised THEN 1 ELSE 1

\* run(): return 1 in the second except clause, return 0 after it
run_return(post) == IF post.raised THEN 1 ELSE 0

\* run(): print(f"Failed to send Discord message: {exc}", file=sys.stderr)
run_report_failure(post) ==
    IF post.raised
    THEN <<[t |-> "Failed to send Discord message:", detail |-> ExcText(post.exc)]>>
    ELSE <<>>

\* run(): the second try block, its except clause and the return; main() exits
\* with the value returned
PostToDiscord ==
    /\ pc = "post_to_discord"
    /\ \E resp \in WebhookResponses :
         LET r == post_to_discord(message, DISCORD_WEBHOOK_URL, resp) IN
         /\ webhook_response' = IF r.posted THEN resp ELSE NoResponse
         /\ calls' = IF r.posted THEN Append(calls, "webhook POST") ELSE calls
         /\ post_result' = [state |-> IF r.raised THEN "raised" ELSE "returned",
                             exc |-> r.exc]
         /\ stdout' = stdout \o r.value
         /\ stderr' = stderr \o run_report_failure(r)
         /\ exit_status' = run_return(r)
    /\ pc' = "exit"
    /\ UNCHANGED <<DISCORD_WEBHOOK_URL, TAOSTATS_API_KEY, MINER_ADDRESSES,
                   LOOKBACK_DAYS, DEBUG_MODE, response,
                   today_utc, earnings, alpha_balances, message, fetch_exc,
                   alpha_exc>>

Next ==
    \/ Construct
    \/ FetchEarnings
    \/ FetchAlphaRewards
    \/ BuildMessage
    \/ PostToDiscord

Spec == Init /\ [][Next]_vars

----------------------------------------------------------------------------
(* Vocabulary of the properties *)

AccountingGet == "accounting GET"
AlphaStakeGet == "alpha-stake GET"
WebhookPost == "webhook POST"

Count(seq, x) == Cardinality({ i \in DOMAIN seq : seq[i] = x })
Issued(call) == \E i \in DOMAIN calls : calls[i] = call

\* a setting is missing when it is not set or set to the empty string
Missing(e) == ~e.set \/ e.val = <<>>
HasWebhookPrefix(e) ==
    /\ e.set
    /\ Len(e.val) >= Len(WebhookPrefix)
    /\ \A i \in 1..Len(WebhookPrefix) : e.val[i] = WebhookPrefix[i]

ConfigValid ==
    /\ ~Missing(DISCORD_WEBHOOK_URL)
    /\ HasWebhookPrefix(DISCORD_WEBHOOK_URL)
    /\ ~Missing(TAOSTATS_API_KEY)
    /\ ~Missing(MINER_ADDRESSES)

Exited == pc = "exit"
\* run() was entered and the process has ended
RunEnded == Exited /\ ConfigValid

PostReturned == post_result.state = "returned"
PostRaised == post_result.state = "raised"

IsDegraded(msg) ==
    /\ Len(msg) = 2
    /\ msg[1] = [t |-> "Daily TAO Earnings - data unavailable"]
IsReport(msg) == Len(msg) >= 1 /\ msg[1].t = "header"

\* fetch_earnings was called and raised / returned
EarningsRaised == Issued(AccountingGet) /\ pc # "fetch_earnings" /\ earnings = <<>>
\* build_message was called
BuildRan == today_utc # 0

\* today - LOOKBACK_DAYS is a date of the calendar (not before 0001-01-01)
WindowRepresentable == LOOKBACK_DAYS <= 0 \/ today_utc - LOOKBACK_DAYS >= 1

ErrorStatus(resp) == resp.kind = "http" /\ resp.status >= 400 /\ resp.status <= 599
Non2xxStatus(resp) == resp.kind = "http" /\ (resp.status < 200 \/ resp.status > 299)
MalformedBody(resp) == resp.kind = "http" /\ resp.body.k = "malformed"

----------------------------------------------------------------------------
(* C1 *)

\* C1: every run of run() under a valid configuration attempts the webhook
\* delivery exactly once: when the process has ended, post_to_discord was called
\* and one POST was issued; the message handed to it is the report build_message
\* returned when fetch_earnings, fetch_alpha_rewards and build_message all
\* returned, and the fixed "data unavailable" message carrying the exception's
\* description when fetch_earnings or build_message raised.
C1_DeliveryAttemptedOnce ==
    RunEnded =>
         /\ PostReturned \/ PostRaised
         /\ Count(calls, WebhookPost) = 1
         /\ IF EarningsRaised
            THEN /\ fetch_exc # NoExc
                 /\ ~BuildRan
                 /\ IsDegraded(message)
                 /\ message[2] = [t |-> "Reason:", exc |-> ExcText(fetch_exc)]
            ELSE LET built == build_message(earnings, alpha_balances, LOOKBACK_DAYS, today_utc) IN
                 /\ BuildRan
                 /\ IF built.raised
                    THEN /\ IsDegraded(message)
                         /\ message[2] = [t |-> "Reason:", exc |-> ExcText(built.exc)]
                    ELSE /\ fetch_exc = NoExc
                         /\ IsReport(message)
                         /\ message = built.value

\* build_message raised on a balance that is no number, and the degraded message
\* was delivered
C1_Witness ==
    /\ RunEnded
    /\ BuildRan
    /\ fetch_exc.type = "ValueError"
    /\ IsDegraded(message)
    /\ PostReturned

----------------------------------------------------------------------------
(* C2 *)

\* C2: when run() has returned, the exit code is 0 exactly when post_to_discord
\* returned normally, and then the webhook had answered 200 or 204; it is 1
\* exactly when post_to_discord raised, and then the last line of the error
\* stream reports that exception.  This holds whether the message was the
\* report or the degraded one.
C2_ExitCodeFollowsDelivery ==
    RunEnded =>
        /\ exit_status \in {0, 1}
        /\ exit_status = 0 <=> PostReturned
        /\ exit_status = 1 <=> PostRaised
        /\ exit_status = 0 =>
             /\ webhook_response.kind = "http"
             /\ webhook_response.status \in {200, 204}
        /\ exit_status = 1 =>
             /\ Len(stderr) >= 1
             /\ stderr[Len(stderr)] = [t |-> "Failed to send Discord message:",
                                        detail |-> ExcText(post_result.exc)]

\* the fetch phase failed, the degraded message was delivered, exit code 0
C2_Witness ==
    /\ RunEnded
    /\ EarningsRaised
    /\ IsDegraded(message)
    /\ webhook_response.status = 204
    /\ exit_status = 0

----------------------------------------------------------------------------
(* C3 *)

\* C3 as stated: whenever the process ends with a non-zero status, a webhook
\* delivery was attempted and failed.
C3_OnlyDeliveryFailureIsFatal ==
    (Exited /\ exit_status # 0) => (Issued(WebhookPost) /\ PostRaised)

\* C3 amended: whenever the process ends with a non-zero status, either the
\* configuration was rejected at construction, before any network call and
\* before run(), or a webhook delivery was attempted and failed.
C3_FatalErrors ==
    (Exited /\ exit_status # 0) =>
        \/ /\ ~ConfigValid
           /\ calls = <<>>
           /\ post_result = NoPost
        \/ /\ ConfigValid
           /\ Issued(WebhookPost)
           /\ PostRaised

\* the report was built, its delivery failed, exit status 1
C3_Witness ==
    /\ RunEnded
    /\ fetch_exc = NoExc
    /\ IsReport(message)
    /\ PostRaised
    /\ exit_status = 1

----------------------------------------------------------------------------
(* C4 *)

\* C4: once the constructor has run, a configuration with the webhook URL
\* missing or without the prefix, the API key missing or the addresses missing
\* has ended the process with the configuration error and no network call; a
\* configuration with all three present and the prefix has entered run().
C4_ConfigurationValidated ==
    pc # "main" =>
        IF ConfigValid
        THEN /\ \A i \in DOMAIN stderr : stderr[i].t # "Traceback"
             /\ Exited => (PostReturned \/ PostRaised)
        ELSE /\ Exited
             /\ exit_status = 1
             /\ calls = <<>>
             /\ post_result = NoPost
             /\ Len(stderr) = 1
             /\ stderr[1].t = "Traceback"
             /\ stderr[1].detail[1] = "RuntimeError"

\* a URL that is set but lacks the prefix, everything else present
C4_Witness ==
    /\ Exited
    /\ ~Missing(DISCORD_WEBHOOK_URL)
    /\ ~HasWebhookPrefix(DISCORD_WEBHOOK_URL)
    /\ ~Missing(TAOSTATS_API_KEY)
    /\ ~Missing(MINER_ADDRESSES)
    /\ calls = <<>>
    /\ exit_status = 1

----------------------------------------------------------------------------
(* C5 *)

\* fetch_alpha_rewards has just returned: response is the alpha-stake answer
AlphaJustFetched == pc = "build_message"
\* an exception was raised inside fetch_alpha_rewards
AlphaFailed == alpha_exc # NoExc

\* C5 as stated: fetch_alpha_rewards never propagates; on a transport error, a
\* non-2xx status, malformed JSON or any exception raised inside it, it returns
\* the empty list; and once the alpha fetch has failed in a run whose
\* fetch_earnings succeeded, the message is the normal report ending with the
\* "No alpha stake data available" line.
C5_AlphaFailureAbsorbed ==
    /\ Issued(AlphaStakeGet) => (pc # "post_to_discord" \/ BuildRan)
    /\ (AlphaJustFetched /\ (response.kind = "transport_error" \/ Non2xxStatus(response)
                              \/ MalformedBody(response) \/ AlphaFailed))
         => alpha_balances = <<>>
    /\ (AlphaFailed /\ BuildRan) =>
         /\ alpha_balances = <<>>
         /\ fetch_exc = NoExc
         /\ IsReport(message)
         /\ message[Len(message)] = NoAlphaLine

\* C5 amended: fetch_alpha_rewards never propagates; on a transport error, a
\* 4xx or 5xx status, malformed JSON or any exception raised inside it, it
\* returns the empty list; and once the alpha fetch has failed in a run whose
\* fetch_earnings succeeded and whose lookback window is representable
\* (LOOKBACK_DAYS <= 0, or today - LOOKBACK_DAYS is not before 0001-01-01), the
\* message is the normal report ending with the "No alpha stake data available"
\* line.
C5_AlphaFailureAbsorbedInRange ==
    /\ Issued(AlphaStakeGet) => (pc # "post_to_discord" \/ BuildRan)
    /\ (AlphaJustFetched /\ (response.kind = "transport_error" \/ ErrorStatus(response)
                              \/ MalformedBody(response) \/ AlphaFailed))
         => alpha_balances = <<>>
    /\ (AlphaFailed /\ BuildRan /\ WindowRepresentable) =>
         /\ alpha_balances = <<>>
         /\ fetch_exc = NoExc
         /\ IsReport(message)
         /\ message[Len(message)] = NoAlphaLine

\* the alpha-stake GET failed in transport and the report was delivered
C5_Witness ==
    /\ RunEnded
    /\ AlphaFailed
    /\ alpha_exc.detail = <<"ConnectionError">>
    /\ IsReport(message)
    /\ message[Len(message)] = NoAlphaLine
    /\ PostReturned

----------------------------------------------------------------------------
(* C6 *)

InText(part, text) == part = "" \/ \E i \in DOMAIN text : text[i] = part

\* C6 as stated: post_to_discord returns normally, having printed the
\* confirmation line with the status code, exactly when the webhook answered
\* 200 or 204; for every other status and for every transport failure it
\* raises, and for a non-success status the error text contains the status code
\* and the response body.
C6_ReturnsIffStatus200Or204 ==
    (Exited /\ Issued(WebhookPost)) =>
        /\ PostReturned <=> (webhook_response.kind = "http"
                              /\ webhook_response.status \in {200, 204})
        /\ PostReturned =>
             stdout = <<[t |-> "Message sent to Discord", status |-> webhook_response.status]>>
        /\ webhook_response.kind # "http" => PostRaised
        /\ (webhook_response.kind = "http" /\ webhook_response.status \notin {200, 204}) =>
             /\ PostRaised
             /\ InText(ToString(webhook_response.status), post_result.exc.detail)
             /\ webhook_response.body.utf8 =>
                  InText(webhook_response.body.text, post_result.exc.detail)

----------------------------------------------------------------------------
(* C7 *)

\* fetch_earnings has just ended: response is the accounting answer
EarningsJustFetched == calls = <<AccountingGet>> /\ pc # "fetch_earnings"
EarningsReturned == pc = "fetch_alpha_rewards"

\* the body is a JSON object whose "data" is an empty array or is absent
DataEmptyOrAbsent(resp) ==
    /\ resp.body.k = "object"
    /\ \/ resp.body.v.data.k = "absent"
       \/ resp.body.v.data.k = "list" /\ Len(resp.body.v.data.v) = 0

ZeroEarning == <<[coldkey |-> MINER_ADDRESSES.val, amount_tao |-> [num |-> 0, den |-> 1]]>>

\* C7 as stated: a transport failure, a non-2xx status or malformed JSON makes
\* fetch_earnings raise; otherwise a response whose "data" is empty or absent
\* makes it return exactly one Earning, for the configured address, with amount
\* 0; and whenever it returns, the list has exactly one element.
C7_EarningsResult ==
    EarningsJustFetched =>
        /\ EarningsReturned => Len(earnings) = 1
        /\ IF response.kind = "transport_error" \/ Non2xxStatus(response)
              \/ MalformedBody(response)
           THEN ~EarningsReturned /\ fetch_exc # NoExc
           ELSE DataEmptyOrAbsent(response) => (EarningsReturned /\ earnings = ZeroEarning)

\* C7 amended: a transport failure, a 4xx or 5xx status or malformed JSON makes
\* fetch_earnings raise; otherwise (any other status included) a response whose
\* "data" is empty or absent makes it return exactly one Earning, for the
\* configured address, with amount 0; and whenever it returns, the list has
\* exactly one element.
C7_EarningsResultErrorStatus ==
    EarningsJustFetched =>
        /\ EarningsReturned => Len(earnings) = 1
        /\ IF response.kind = "transport_error" \/ ErrorStatus(response)
              \/ MalformedBody(response)
           THEN ~EarningsReturned /\ fetch_exc # NoExc
           ELSE DataEmptyOrAbsent(response) => (EarningsReturned /\ earnings = ZeroEarning)

\* an empty "data" array was answered with status 200
C7_Witness ==
    /\ EarningsJustFetched
    /\ response.status = 200
    /\ response.body.k = "object"
    /\ response.body.v.data = [k |-> "list", v |-> <<>>]
    /\ earnings = ZeroEarning

----------------------------------------------------------------------------
(* C8 *)

\* the alpha section of the report can be rendered
AlphaRenders == ~alpha_section(alpha_balances).raised

ExpectedHeader ==
    IF LOOKBACK_DAYS <= 0
    THEN [t |-> "header", mode |-> "All Time", dates |-> <<>>]
    ELSE IF LOOKBACK_DAYS = 1
    THEN [t |-> "header", mode |-> "Daily", dates |-> <<FormatDate(today_utc)>>]
    ELSE [t |-> "header", mode |-> "Range",
          dates |-> <<FormatDate(today_utc - LOOKBACK_DAYS), FormatDate(today_utc)>>]

\* C8 as stated: for every integer lookback build_message produces exactly the
\* header of its mode: "All Time" without dates for lookback <= 0, "Daily" with
\* the end date (today) only for lookback = 1, and the range header with start
\* date today - lookback and end date today for lookback > 1.
C8_HeaderByLookback ==
    (BuildRan /\ AlphaRenders) =>
        /\ IsReport(message)
        /\ message[1] = ExpectedHeader

\* C8 amended: the same, for every integer lookback whose window is
\* representable (lookback <= 0, or today - lookback is not before 0001-01-01);
\* for a larger lookback build_message raises OverflowError and no header is
\* produced.
C8_HeaderByRepresentableLookback ==
    (BuildRan /\ AlphaRenders) =>
        IF WindowRepresentable
        THEN /\ IsReport(message)
             /\ message[1] = ExpectedHeader
        ELSE /\ IsDegraded(message)
             /\ fetch_exc.type = "OverflowError"

\* ten days back from 2026-11-01
C8_Witness ==
    /\ BuildRan
    /\ LOOKBACK_DAYS = 10
    /\ IsReport(message)
    /\ message[1] = [t |-> "header", mode |-> "Range",
                      dates |-> <<"2026-10-22", "2026-11-01">>]

----------------------------------------------------------------------------
(* C9 *)

\* C9: the network calls of a run are the accounting GET, then the alpha-stake
\* GET, then the webhook POST, each at most once; the alpha-stake GET is issued
\* only after fetch_earnings returned and is skipped when it raised; when run()
\* has ended the webhook POST is the last call.
C9_CallOrder ==
    /\ calls \in { <<>>,
                    <<AccountingGet>>,
                    <<AccountingGet, AlphaStakeGet>>,
                    <<AccountingGet, WebhookPost>>,
                    <<AccountingGet, AlphaStakeGet, WebhookPost>> }
    /\ Issued(AlphaStakeGet) => Len(earnings) = 1
    /\ EarningsRaised => ~Issued(AlphaStakeGet)
    /\ (Len(calls) >= 2 /\ calls[2] = WebhookPost) => EarningsRaised
    /\ RunEnded => calls[Len(calls)] = WebhookPost

\* both GETs failed or were answered, the POST failed, and nothing was repeated
C9_Witness ==
    /\ RunEnded
    /\ calls = <<AccountingGet, AlphaStakeGet, WebhookPost>>
    /\ AlphaFailed
    /\ PostRaised
    /\ webhook_response.kind = "url_error"

----------------------------------------------------------------------------
(* C10 *)

\* the alpha-stake answer was parsed into a "data" array of objects
AlphaParsed(resp) ==
    /\ resp.kind = "http"
    /\ ~ErrorStatus(resp)
    /\ resp.body.k = "object"
    /\ resp.body.v.data.k = "list"
    /\ \A i \in DOMAIN resp.body.v.data.v : resp.body.v.data.v[i].k = "object"

CarriesNetuid(item) == item.v.netuid.k \notin {"absent", "null"}

OrDefault(x, default) == IF x.k = "absent" THEN default ELSE x

\* the records with a subnet identifier, in upstream order
ExpectedBalances(items) ==
    LET kept == SelectSeq(items, CarriesNetuid) IN
    [i \in 1..Len(kept) |->
        [netuid |-> kept[i].v.netuid,
         balance_rao |-> OrDefault(kept[i].v.balance, [k |-> "str", v |-> <<"0">>]),
         balance_as_tao |-> OrDefault(kept[i].v.balance_as_tao, [k |-> "str", v |-> <<"0">>]),
         hotkey_name |-> OrDefault(kept[i].v.hotkey_name, [k |-> "null", v |-> 0])]]

\* C10: for a parsed alpha-stake response fetch_alpha_rewards returns exactly the
\* records that carry a non-null netuid, in upstream order (subnet 0 included),
\* and every balance that reaches build_message has a subnet identifier.
C10_RecordsWithNetuid ==
    /\ (AlphaJustFetched /\ AlphaParsed(response)) =>
         alpha_balances = ExpectedBalances(response.body.v.data.v)
    /\ \A i \in DOMAIN alpha_balances : alpha_balances[i].netuid.k = "int"

\* of two records the one without netuid was dropped and subnet 0 was kept
C10_Witness ==
    /\ AlphaJustFetched
    /\ AlphaParsed(response)
    /\ Len(response.body.v.data.v) = 2
    /\ Len(alpha_balances) = 1
    /\ alpha_balances[1].netuid = [k |-> "int", v |-> 0]

=============================================================================
